---- MODULE Spec2Model ----
(***************************************************************************)
(* The TinyLFU cache of go-tinylfu as a state machine.                     *)
(*                                                                         *)
(* The string-keyed engine T (New, Get, Set, Add, Del, del, onEvict,       *)
(* Item.expired, SyncT) is translated from src/unnamed/part_000.  Its      *)
(* collaborators lruCache, slruCache, cm4 and doorkeeper are not among the *)
(* sources of that engine (the lruCache of src/tinylfu.go belongs to the   *)
(* uint64-keyed engine: its map is keyed by uint64 and its Remove takes a  *)
(* key, while T.del hands lru.Remove a list element); they are modelled    *)
(* from sections 4.1-4.4 of the specification and from the way T calls     *)
(* them.                                                                   *)
(*                                                                         *)
(* The uint64-keyed engine T of src/tinylfu.go (New, Get, Set, Del) and    *)
(* its lruCache are translated from that file in a section of their own;   *)
(* their operators carry the suffix 64.                                    *)
(*                                                                         *)
(* A list element and the Item it points to are one "slot" here: elems[e]  *)
(* is the Item of element e, a list is the sequence of its elements, front *)
(* (most recently used) first, and data maps a key to its element, 0 for   *)
(* an absent key.                                                          *)
(***************************************************************************)
EXTENDS Integers, Sequences, FiniteSets, TLC

\* ------------------------------------------------------------------ bounds
NumKeys == 3
MaxSize == 3
MaxSamples == 2
MaxVal == 2
MaxTime == 2
\* A key is used (Get, or Set of a resident key) only while its frequency
\* estimate is below MaxFreq: this bounds the uses of a key between two resets.
MaxFreq == 1
\* The keys 1..MaxExpiring are the ones whose items may carry an expiry.
MaxExpiring == 1
\* The threads that call a SyncT.
NumThreads == 2
\* The keys 1..NumSyncKeys are the ones the threads of a SyncT use.
NumSyncKeys == 2

Keys == 1..NumKeys
Threads == 1..NumThreads
Values == 1..MaxVal
\* ExpireAt: 0 is the zero time (never expires), else an instant.
ExpireAts == 0..(MaxTime - 1)

\* -------------------------------------------------------- program constants
lruPct == 1
cmDepth == 4
cmMaxCount == 15
dkBits == 3

VARIABLES
    size,          \* the capacity New was called with
    samples,       \* T.samples
    w,             \* T.w, the operation counter
    countSketch,   \* T.countSketch: row -> column -> counter
    bouncer,       \* T.bouncer: the set of bits that are set
    data,          \* T.data: key -> element, 0 when absent
    lru,           \* T.lru: [cap, ll]
    slru,          \* T.slru: [onecap, twocap, one, two]
    elems,         \* element -> the Item it holds (NoItem: not allocated)
    now,           \* time.Now()
    evicts,        \* key -> invocations of the OnEvict of that key's item
    lastVal,       \* key -> Value of the last Set / successful Add, while resident
    ret,           \* what the last operation was and what it returned
    mu,            \* SyncT.mu: [readers, writer, pending]
    pc,            \* SyncT: per thread, the call it is in ("idle": none)
    offered,       \* the fingerprints the admission filter was asked about
                   \* since its last reset (followed under SpecDK only)
    ptrs,          \* uint64-keyed engine: the elements whose Value holds a **Item
    panicked       \* uint64-keyed engine: a call has panicked

cacheVars == <<samples, w, countSketch, bouncer, data, lru, slru, elems>>
vars == <<size, samples, w, countSketch, bouncer, data, lru, slru, elems,
          now, evicts, lastVal, ret, mu, pc, ptrs, panicked, offered>>

\* ------------------------------------------------------------------- Item
NoItem == [Key |-> 0, Value |-> 0, ExpireAt |-> 0, OnEvict |-> FALSE,
           listid |-> 0, keyh |-> 0]

\* The Items a caller passes: listid and keyh are unexported and zero.  Every
\* Item carries an OnEvict callback; the keys up to MaxExpiring may carry an
\* expiry, the others never expire.
NewItems ==
    {it \in [Key : Keys, Value : Values, ExpireAt : ExpireAts,
             OnEvict : {TRUE}, listid : {0}, keyh : {0}] :
        it.ExpireAt # 0 => it.Key <= MaxExpiring}

\* xxhash.Sum64String: an injective fingerprint of the key.
Hash(key) == 2 * key + 1

\* expired with one instant of grace
expiredLate(item, t) == item.ExpireAt # 0 /\ t > item.ExpireAt + 1

expired(item, t) == item.ExpireAt # 0 /\ t > item.ExpireAt

\* ------------------------------------------------------ container/list
Front(l) == l[1]
Back(l) == l[Len(l)]
InList(l, e) == \E i \in 1..Len(l) : l[i] = e
Remove(l, e) == SelectSeq(l, LAMBDA x : x # e)
PushFront(l, e) == <<e>> \o l
MoveToFront(l, e) == IF InList(l, e) THEN <<e>> \o Remove(l, e) ELSE l

\* ---------------------------------------------------------------- New
lruSizeOf(sz) == LET n == (lruPct * sz) \div 100 IN IF n < 1 THEN 1 ELSE n
slruSizeOf(sz) == LET n == (sz * (100 - lruPct)) \div 100 IN IF n < 1 THEN 1 ELSE n
slru20Of(sz) == LET n == (2 * slruSizeOf(sz)) \div 10 IN IF n < 1 THEN 1 ELSE n

MaxElems == lruSizeOf(MaxSize) + slruSizeOf(MaxSize)
Elems == 1..MaxElems

\* ------------------------------------------------- cm4 (frequency estimator)
\* Width of the counter table, sized from the capacity: the least power of
\* two that is at least four times the capacity.  A capacity above MaxSize
\* gets the table of MaxSize, which keeps the fingerprints of Keys apart.
RECURSIVE pow2AtLeast(_, _)
pow2AtLeast(n, p) == IF p >= n THEN p ELSE pow2AtLeast(n, 2 * p)
cmWidthOf(sz) == pow2AtLeast(4 * (IF sz < MaxSize THEN sz ELSE MaxSize), 1)

\* The column of fingerprint h in row r of a table of the given width.
cmCol(r, h, width) == ((h \div 2) + r) % width

newCM4(sz) == [r \in 1..cmDepth |-> [c \in 0..(cmWidthOf(sz) - 1) |-> 0]]

cmWidth(cs) == Cardinality(DOMAIN cs[1])

cmAdd(cs, h) ==
    [r \in 1..cmDepth |->
        [c \in DOMAIN cs[r] |->
            IF c = cmCol(r, h, cmWidth(cs)) /\ cs[r][c] < cmMaxCount
            THEN cs[r][c] + 1
            ELSE cs[r][c]]]

cmEstimate(cs, h) ==
    LET cnt(r) == cs[r][cmCol(r, h, cmWidth(cs))]
    IN CHOOSE m \in {cnt(r) : r \in 1..cmDepth} :
           \A r \in 1..cmDepth : m <= cnt(r)

cmReset(cs) == [r \in 1..cmDepth |-> [c \in DOMAIN cs[r] |-> cs[r][c] \div 2]]

\* ------------------------------------------- doorkeeper (admission filter)
\* The bits of fingerprint h in the filter's bit array.
dkIdx(h) == {h % dkBits, (h \div dkBits) % dkBits}

newDoorkeeper == {}

\* allow: [bits: the filter afterwards, ok: the admission signal]
dkAllow(bits, h) ==
    IF dkIdx(h) \subseteq bits
    THEN [bits |-> bits, ok |-> TRUE]
    ELSE [bits |-> bits \cup dkIdx(h), ok |-> FALSE]

dkReset(bits) == {}

\* ------------------------------------------------------------ elements
\* The cache as one record S, so that a handler's calls compose.
\* list.PushFront allocates an element: the least one that is in no list.
Live(S) == {S.lru.ll[i] : i \in 1..Len(S.lru.ll)}
             \cup {S.slru.one[i] : i \in 1..Len(S.slru.one)}
             \cup {S.slru.two[i] : i \in 1..Len(S.slru.two)}
NewElem(S) == CHOOSE e \in Elems \ Live(S) : \A f \in Elems \ Live(S) : e <= f

\* ------------------------------------------------ lruCache (window cache)
newLRU(cap) == [cap |-> cap, ll |-> <<>>]

lruGet(S, v) == [S EXCEPT !.lru.ll = MoveToFront(@, v)]

\* add: [S, oldItem, evicted]
lruAdd(S, newItem) ==
    IF Len(S.lru.ll) < S.lru.cap
    THEN LET e == NewElem(S)
         IN [S |-> [S EXCEPT !.elems[e] = newItem,
                             !.lru.ll = PushFront(@, e),
                             !.data[newItem.Key] = e],
             oldItem |-> NoItem, evicted |-> FALSE]
    ELSE LET e == Back(S.lru.ll)
             item == S.elems[e]
         IN [S |-> [S EXCEPT !.data = [[@ EXCEPT ![item.Key] = 0]
                                           EXCEPT ![newItem.Key] = e],
                             !.elems[e] = newItem,
                             !.lru.ll = MoveToFront(@, e)],
             oldItem |-> item, evicted |-> TRUE]

lruRemove(S, v) ==
    IF InList(S.lru.ll, v)
    THEN [S EXCEPT !.lru.ll = Remove(@, v), !.elems[v] = NoItem]
    ELSE S

\* ------------------------------------------------- slruCache (main cache)
\* listid 1 is probation (list one), listid 2 is protected (list two).
newSLRU(onecap, twocap) ==
    [onecap |-> onecap, twocap |-> twocap, one |-> <<>>, two |-> <<>>]

slruLen(S) == Len(S.slru.one) + Len(S.slru.two)

slruGet(S, v) ==
    LET item == S.elems[v]
    IN IF item.listid = 2
       THEN [S EXCEPT !.slru.two = MoveToFront(@, v)]
       ELSE IF Len(S.slru.two) < S.slru.twocap
       THEN \* room in protected: unlink from probation, link into protected
            [S EXCEPT !.slru.one = Remove(@, v),
                      !.slru.two = PushFront(@, v),
                      !.elems[v].listid = 2,
                      !.data[item.Key] = v]
       ELSE IF S.slru.two = <<>>
       THEN \* protected has no capacity: the promoted item is itself the
            \* tail that is demoted, it ends at the front of probation
            [S EXCEPT !.slru.one = MoveToFront(@, v)]
       ELSE \* protected is full: swap the items of v and of protected's tail
            LET back == Back(S.slru.two)
                bitem == S.elems[back]
            IN [S EXCEPT !.elems[back] = [item EXCEPT !.listid = 2],
                         !.elems[v] = [bitem EXCEPT !.listid = 1],
                         !.data = [[@ EXCEPT ![bitem.Key] = v]
                                       EXCEPT ![item.Key] = back],
                         !.slru.one = MoveToFront(@, v),
                         !.slru.two = MoveToFront(@, back)]

\* add that links the item with the tag it arrives with
slruAddUntagged(S, newitem) ==
    LET it == newitem
    IN IF Len(S.slru.one) < S.slru.onecap
          \/ slruLen(S) < S.slru.onecap + S.slru.twocap
       THEN LET e == NewElem(S)
            IN [S EXCEPT !.elems[e] = it,
                         !.slru.one = PushFront(@, e),
                         !.data[it.Key] = e]
       ELSE LET e == Back(S.slru.one)
                item == S.elems[e]
            IN [S EXCEPT !.data = [[@ EXCEPT ![item.Key] = 0]
                                       EXCEPT ![it.Key] = e],
                         !.elems[e] = it,
                         !.slru.one = MoveToFront(@, e)]

slruAdd(S, newitem) ==
    LET it == [newitem EXCEPT !.listid = 1]
    IN IF Len(S.slru.one) < S.slru.onecap
          \/ slruLen(S) < S.slru.onecap + S.slru.twocap
       THEN LET e == NewElem(S)
            IN [S EXCEPT !.elems[e] = it,
                         !.slru.one = PushFront(@, e),
                         !.data[it.Key] = e]
       ELSE \* main cache full: the probation tail makes room
            LET e == Back(S.slru.one)
                item == S.elems[e]
            IN [S EXCEPT !.data = [[@ EXCEPT ![item.Key] = 0]
                                       EXCEPT ![it.Key] = e],
                         !.elems[e] = it,
                         !.slru.one = MoveToFront(@, e)]

\* victim: the probation tail's Item, NoItem (nil) while the main cache has room
slruVictim(S) ==
    IF slruLen(S) < S.slru.onecap + S.slru.twocap
    THEN NoItem
    ELSE S.elems[Back(S.slru.one)]

slruRemove(S, v) ==
    IF InList(S.slru.one, v) \/ InList(S.slru.two, v)
    THEN [S EXCEPT !.slru.one = Remove(@, v),
                   !.slru.two = Remove(@, v),
                   !.elems[v] = NoItem]
    ELSE S

\* ------------------------------------------------------------------- T
New(sz, smp) ==
    [samples     |-> smp,
     w           |-> 0,
     countSketch |-> newCM4(sz),
     bouncer     |-> newDoorkeeper,
     data        |-> [k \in Keys |-> 0],
     lru         |-> newLRU(lruSizeOf(sz)),
     slru        |-> newSLRU(slru20Of(sz), slruSizeOf(sz) - slru20Of(sz)),
     elems       |-> [e \in Elems |-> NoItem],
     evicts      |-> [k \in Keys |-> 0],
     offered     |-> {}]

onEvict(S, item) ==
    IF item.OnEvict THEN [S EXCEPT !.evicts[item.Key] = @ + 1] ELSE S

\* del that leaves the dictionary entry in place
delKeepsEntry(S, val) ==
    LET item == S.elems[val]
        S2 == IF item.listid = 0 THEN lruRemove(S, val) ELSE slruRemove(S, val)
    IN onEvict(S2, item)

del(S, val) ==
    LET item == S.elems[val]
        S1 == [S EXCEPT !.data[item.Key] = 0]
        S2 == IF item.listid = 0 THEN lruRemove(S1, val) ELSE slruRemove(S1, val)
    IN onEvict(S2, item)

\* Get that reads item.Value after the list movement instead of saving it
TGetLate(S, key, t) ==
    LET S1 == IF S.w + 1 = S.samples
              THEN [S EXCEPT !.countSketch = cmReset(@),
                             !.bouncer = dkReset(@),
                             !.offered = {},
                             !.w = 0]
              ELSE [S EXCEPT !.w = @ + 1]
        S2 == [S1 EXCEPT !.countSketch = cmAdd(@, Hash(key))]
        val == S2.data[key]
    IN IF val = 0
       THEN [S |-> S2, value |-> 0, ok |-> FALSE]
       ELSE LET item == S2.elems[val]
                S3 == IF item.listid = 0 THEN lruGet(S2, val) ELSE slruGet(S2, val)
            IN IF item.ExpireAt # 0 /\ t > item.ExpireAt
               THEN [S |-> del(S2, val), value |-> 0, ok |-> FALSE]
               ELSE [S |-> S3, value |-> S3.elems[val].Value, ok |-> TRUE]

\* Get that resets the estimator and the counter but not the admission filter
TGetKeepsFilter(S, key, t) ==
    LET S1 == IF S.w + 1 = S.samples
              THEN [S EXCEPT !.countSketch = cmReset(@), !.offered = {}, !.w = 0]
              ELSE [S EXCEPT !.w = @ + 1]
        keyh == Hash(key)
        S2 == [S1 EXCEPT !.countSketch = cmAdd(@, keyh)]
        val == S2.data[key]
    IN IF val = 0
       THEN [S |-> S2, value |-> 0, ok |-> FALSE]
       ELSE LET item == S2.elems[val]
            IN IF expired(item, t)
               THEN [S |-> del(S2, val), value |-> 0, ok |-> FALSE]
               ELSE [S |-> IF item.listid = 0 THEN lruGet(S2, val)
                                              ELSE slruGet(S2, val),
                     value |-> item.Value, ok |-> TRUE]

\* Get at time t: [S, value, ok]
TGet(S, key, t) ==
    LET S1 == IF S.w + 1 = S.samples
              THEN [S EXCEPT !.countSketch = cmReset(@),
                             !.bouncer = dkReset(@),
                             !.offered = {},
                             !.w = 0]
              ELSE [S EXCEPT !.w = @ + 1]
        keyh == Hash(key)
        S2 == [S1 EXCEPT !.countSketch = cmAdd(@, keyh)]
        val == S2.data[key]
    IN IF val = 0
       THEN [S |-> S2, value |-> 0, ok |-> FALSE]
       ELSE LET item == S2.elems[val]
            IN IF expired(item, t)
               THEN [S |-> del(S2, val), value |-> 0, ok |-> FALSE]
               ELSE [S |-> IF item.listid = 0 THEN lruGet(S2, val)
                                              ELSE slruGet(S2, val),
                     value |-> item.Value, ok |-> TRUE]

\* set that updates a resident key also when it was told to fail
setExistingAlways(S, e, newItem, failIfKeyAlreadyExists) ==
    LET item == S.elems[e]
        S1 == [S EXCEPT !.elems[e].Value = newItem.Value,
                        !.countSketch = cmAdd(@, item.keyh)]
    IN [S |-> IF item.listid = 0 THEN lruGet(S1, e) ELSE slruGet(S1, e),
        err |-> failIfKeyAlreadyExists]

\* set that takes the resident item out (del) before it stores the new value
setExistingEvicts(S, e, newItem, failIfKeyAlreadyExists) ==
    IF failIfKeyAlreadyExists
    THEN [S |-> S, err |-> TRUE]
    ELSE LET S1 == del(S, e)
             it == [newItem EXCEPT !.keyh = Hash(newItem.Key)]
         IN [S |-> lruAdd(S1, it).S, err |-> FALSE]

\* set, the key is in the cache at element e: [S, err]
setExisting(S, e, newItem, failIfKeyAlreadyExists) ==
    IF failIfKeyAlreadyExists
    THEN [S |-> S, err |-> TRUE]
    ELSE LET item == S.elems[e]
             S1 == [S EXCEPT !.elems[e].Value = newItem.Value,
                             !.countSketch = cmAdd(@, item.keyh)]
         IN [S |-> IF item.listid = 0 THEN lruGet(S1, e) ELSE slruGet(S1, e),
             err |-> FALSE]

\* set of a new key that goes to the comparison whatever the filter answers
setNewUnfiltered(S, newItem) ==
    LET it == [newItem EXCEPT !.keyh = Hash(newItem.Key)]
        a == lruAdd(S, it)
        oldItem == a.oldItem
        victim == slruVictim(a.S)
        b == dkAllow(a.S.bouncer, oldItem.keyh)
        S1 == [a.S EXCEPT !.bouncer = b.bits,
                          !.offered = @ \cup {oldItem.keyh}]
        victimCount == cmEstimate(S1.countSketch, victim.keyh)
        itemCount == cmEstimate(S1.countSketch, oldItem.keyh)
    IN IF ~a.evicted THEN a.S
       ELSE IF victim = NoItem THEN slruAdd(a.S, oldItem)
       ELSE IF itemCount > victimCount THEN slruAdd(S1, oldItem)
       ELSE onEvict(S1, oldItem)

\* set, the key is new: the window takes it, its evictee meets the main cache
setNew(S, newItem) ==
    LET it == [newItem EXCEPT !.keyh = Hash(newItem.Key)]
        a == lruAdd(S, it)
        oldItem == a.oldItem
        victim == slruVictim(a.S)
        b == dkAllow(a.S.bouncer, oldItem.keyh)
        S1 == [a.S EXCEPT !.bouncer = b.bits,
                          !.offered = @ \cup {oldItem.keyh}]
        victimCount == cmEstimate(S1.countSketch, victim.keyh)
        itemCount == cmEstimate(S1.countSketch, oldItem.keyh)
    IN IF ~a.evicted THEN a.S
       ELSE IF victim = NoItem THEN slruAdd(a.S, oldItem)
       ELSE IF ~b.ok THEN onEvict(S1, oldItem)
       ELSE IF itemCount > victimCount THEN slruAdd(S1, oldItem)
       ELSE onEvict(S1, oldItem)

set(S, newItem, failIfKeyAlreadyExists) ==
    IF S.data[newItem.Key] # 0
    THEN setExisting(S, S.data[newItem.Key], newItem, failIfKeyAlreadyExists)
    ELSE [S |-> setNew(S, newItem), err |-> FALSE]

TAdd(S, newItem) == set(S, newItem, TRUE)

TSet(S, newItem) == set(S, newItem, FALSE).S

\* Del that invokes the callback itself and then calls del
TDelTwice(S, key) ==
    IF S.data[key] # 0
    THEN del(onEvict(S, S.elems[S.data[key]]), S.data[key])
    ELSE S

TDel(S, key) == IF S.data[key] # 0 THEN del(S, S.data[key]) ELSE S

\* ------------------------------------------------------------ the machine
\* The cache before an operation.  evicts counts, for a resident key, the
\* invocations of its item's OnEvict so far, and for a key that is not
\* resident those of the operation that just ended: the count of an item
\* that is gone is dropped when the next operation starts.  What the filter
\* was asked about before the operation is not followed here.
Cur ==
    [samples |-> samples, w |-> w, countSketch |-> countSketch,
     bouncer |-> bouncer, data |-> data, lru |-> lru, slru |-> slru,
     elems |-> elems,
     evicts |-> [k \in Keys |-> IF data[k] = 0 THEN 0 ELSE evicts[k]],
     offered |-> {}]

\* The address of a list element is not observable: after an operation the
\* elements are renamed by where they are linked (window, probation, protected,
\* front first, then the free ones), which identifies states that differ only
\* in the addresses.
Rename(S) ==
    LET order == S.lru.ll \o S.slru.one \o S.slru.two
        live == {order[i] : i \in 1..Len(order)}
        first(e) == CHOOSE i \in 1..Len(order) :
                        order[i] = e /\ \A j \in 1..(i - 1) : order[j] # e
        rank(e) == IF e \in live
                   THEN Cardinality({order[j] : j \in 1..first(e)})
                   ELSE Cardinality(live)
                            + Cardinality({f \in Elems \ live : f <= e})
        to == [e \in Elems |-> rank(e)]
    IN IF \A e \in Elems : to[e] = e
       THEN S
       ELSE LET from == [n \in Elems |-> CHOOSE e \in Elems : to[e] = n]
                map(l) == [i \in 1..Len(l) |-> to[l[i]]]
            IN [S EXCEPT !.data = [k \in Keys |->
                                      IF S.data[k] = 0 THEN 0 ELSE to[S.data[k]]],
                         !.elems = [n \in Elems |-> S.elems[from[n]]],
                         !.lru.ll = map(@),
                         !.slru.one = map(@),
                         !.slru.two = map(@)]

Commit(S) ==
    /\ samples' = S.samples
    /\ w' = S.w
    /\ countSketch' = S.countSketch
    /\ bouncer' = S.bouncer
    /\ data' = S.data
    /\ lru' = S.lru
    /\ slru' = S.slru
    /\ elems' = S.elems
    /\ evicts' = S.evicts

Result(op, ok, value, err) ==
    [op |-> op, ok |-> ok, value |-> value, err |-> err]

\* lastVal after an operation that left the cache as S: kept while resident.
Kept(lv, S) == [k \in Keys |-> IF S.data[k] = 0 THEN 0 ELSE lv[k]]

\* A thread's place in a SyncT call: at is "idle", "locking" (Lock called, not
\* yet granted) or "in" (inside the engine, the lock held).
Idle == [at |-> "idle", op |-> "none", arg |-> 0]

Init ==
    /\ size \in 1..MaxSize
    /\ \E smp \in {MaxSamples} :
           LET S == New(size, smp)
           IN /\ samples = S.samples
              /\ w = S.w
              /\ countSketch = S.countSketch
              /\ bouncer = S.bouncer
              /\ data = S.data
              /\ lru = S.lru
              /\ slru = S.slru
              /\ elems = S.elems
              /\ evicts = S.evicts
    /\ now = 1
    /\ lastVal = [k \in Keys |-> 0]
    /\ ret = Result("New", FALSE, 0, FALSE)
    /\ mu = [readers |-> 0, writer |-> FALSE, pending |-> 0]
    /\ pc = [th \in Threads |-> Idle]
    /\ offered = {}
    /\ ptrs = {}
    /\ panicked = FALSE

Get(key) ==
    /\ cmEstimate(countSketch, Hash(key)) < MaxFreq
    /\ \E r \in {TGet(Cur, key, now)} : \E S \in {Rename(r.S)} :
          /\ Commit(S)
          /\ ret' = Result("Get", r.ok, r.value, FALSE)
          /\ lastVal' = Kept(lastVal, S)
    /\ UNCHANGED <<size, now, mu, pc, ptrs, panicked, offered>>

Set(newItem) ==
    /\ data[newItem.Key] # 0 =>
           cmEstimate(countSketch, Hash(newItem.Key)) < MaxFreq
    /\ \E S \in {Rename(TSet(Cur, newItem))} :
          /\ Commit(S)
          /\ ret' = Result("Set", FALSE, 0, FALSE)
          /\ lastVal' = Kept([lastVal EXCEPT ![newItem.Key] = newItem.Value], S)
    /\ UNCHANGED <<size, now, mu, pc, ptrs, panicked, offered>>

Add(newItem) ==
    /\ \E r \in {TAdd(Cur, newItem)} : \E S \in {Rename(r.S)} :
          /\ Commit(S)
          /\ ret' = Result("Add", FALSE, 0, r.err)
          /\ lastVal' = Kept(IF r.err THEN lastVal
                             ELSE [lastVal EXCEPT ![newItem.Key] = newItem.Value],
                             S)
    /\ UNCHANGED <<size, now, mu, pc, ptrs, panicked, offered>>

Del(key) ==
    /\ \E S \in {Rename(TDel(Cur, key))} :
          /\ Commit(S)
          /\ ret' = Result("Del", FALSE, 0, FALSE)
          /\ lastVal' = Kept(lastVal, S)
    /\ UNCHANGED <<size, now, mu, pc, ptrs, panicked, offered>>

\* time passes
Tick ==
    /\ now < MaxTime
    /\ now' = now + 1
    /\ UNCHANGED <<size, samples, w, countSketch, bouncer, data, lru, slru,
                   elems, evicts, lastVal, ret, mu, pc, ptrs, panicked, offered>>

Next ==
    \/ \E key \in Keys : Get(key)
    \/ \E newItem \in NewItems : Set(newItem)
    \/ \E newItem \in NewItems : Add(newItem)
    \/ \E key \in Keys : Del(key)
    \/ Tick

Spec == Init /\ [][Next]_vars

\* ---------------------------------------------------------------- SyncT
\* sync.RWMutex: RLock is granted while no writer holds the lock and none is
\* waiting for it; Lock waits until no reader and no writer holds it.
KeyArg(key) == [NoItem EXCEPT !.Key = key]

SyncKeys == 1..NumSyncKeys
SyncItems == {it \in NewItems : it.Key \in SyncKeys /\ it.Value = 1 /\ it.ExpireAt = 0}

\* The calls under way that use the key (a Get or a Set of it): with the
\* key's estimate they stay below MaxFreq.
InFlight(key) ==
    Cardinality({th \in Threads : pc[th].op \in {"Get", "Set"} /\ pc[th].arg.Key = key})

\* SyncT.Get: t.mu.RLock()
SyncGetRLock(th, key) ==
    /\ pc[th].at = "idle"
    /\ cmEstimate(countSketch, Hash(key)) + InFlight(key) < MaxFreq
    /\ ~mu.writer /\ mu.pending = 0
    /\ mu' = [mu EXCEPT !.readers = @ + 1]
    /\ pc' = [pc EXCEPT ![th] = [at |-> "in", op |-> "Get", arg |-> KeyArg(key)]]
    /\ UNCHANGED <<size, samples, w, countSketch, bouncer, data, lru, slru,
                   elems, now, evicts, lastVal, ret, ptrs, panicked, offered>>

\* SyncT.Get: t.t.Get(key); t.mu.RUnlock()
SyncGet(th) ==
    /\ pc[th].at = "in" /\ pc[th].op = "Get"
    /\ \E r \in {TGet(Cur, pc[th].arg.Key, now)} : \E S \in {Rename(r.S)} :
          /\ Commit(S)
          /\ ret' = Result("Get", r.ok, r.value, FALSE)
          /\ lastVal' = Kept(lastVal, S)
    /\ mu' = [mu EXCEPT !.readers = @ - 1]
    /\ pc' = [pc EXCEPT ![th] = Idle]
    /\ UNCHANGED <<size, now, ptrs, panicked, offered>>

\* SyncT.Set, Add, Del: t.mu.Lock() is called
SyncLock(th, op, arg) ==
    /\ pc[th].at = "idle"
    /\ op = "Set" =>
           cmEstimate(countSketch, Hash(arg.Key)) + InFlight(arg.Key) < MaxFreq
    /\ mu' = [mu EXCEPT !.pending = @ + 1]
    /\ pc' = [pc EXCEPT ![th] = [at |-> "locking", op |-> op, arg |-> arg]]
    /\ UNCHANGED <<size, samples, w, countSketch, bouncer, data, lru, slru,
                   elems, now, evicts, lastVal, ret, ptrs, panicked, offered>>

\* t.mu.Lock() returns
SyncLocked(th) ==
    /\ pc[th].at = "locking"
    /\ mu.readers = 0 /\ ~mu.writer
    /\ mu' = [mu EXCEPT !.writer = TRUE, !.pending = @ - 1]
    /\ pc' = [pc EXCEPT ![th].at = "in"]
    /\ UNCHANGED <<size, samples, w, countSketch, bouncer, data, lru, slru,
                   elems, now, evicts, lastVal, ret, ptrs, panicked, offered>>

\* SyncT.Set: t.t.Set(item); t.mu.Unlock()
SyncSet(th) ==
    /\ pc[th].at = "in" /\ pc[th].op = "Set"
    /\ \E S \in {Rename(TSet(Cur, pc[th].arg))} :
          /\ Commit(S)
          /\ ret' = Result("Set", FALSE, 0, FALSE)
          /\ lastVal' = Kept([lastVal EXCEPT ![pc[th].arg.Key] = pc[th].arg.Value], S)
    /\ mu' = [mu EXCEPT !.writer = FALSE]
    /\ pc' = [pc EXCEPT ![th] = Idle]
    /\ UNCHANGED <<size, now, ptrs, panicked, offered>>

\* SyncT.Add: t.t.Add(item); t.mu.Unlock()
SyncAdd(th) ==
    /\ pc[th].at = "in" /\ pc[th].op = "Add"
    /\ \E r \in {TAdd(Cur, pc[th].arg)} : \E S \in {Rename(r.S)} :
          /\ Commit(S)
          /\ ret' = Result("Add", FALSE, 0, r.err)
          /\ lastVal' = Kept(IF r.err THEN lastVal
                             ELSE [lastVal EXCEPT ![pc[th].arg.Key] = pc[th].arg.Value],
                             S)
    /\ mu' = [mu EXCEPT !.writer = FALSE]
    /\ pc' = [pc EXCEPT ![th] = Idle]
    /\ UNCHANGED <<size, now, ptrs, panicked, offered>>

\* SyncT.Del: t.t.Del(key); t.mu.Unlock()
SyncDel(th) ==
    /\ pc[th].at = "in" /\ pc[th].op = "Del"
    /\ \E S \in {Rename(TDel(Cur, pc[th].arg.Key))} :
          /\ Commit(S)
          /\ ret' = Result("Del", FALSE, 0, FALSE)
          /\ lastVal' = Kept(lastVal, S)
    /\ mu' = [mu EXCEPT !.writer = FALSE]
    /\ pc' = [pc EXCEPT ![th] = Idle]
    /\ UNCHANGED <<size, now, ptrs, panicked, offered>>

NextSync ==
    \/ \E th \in Threads, key \in SyncKeys : SyncGetRLock(th, key)
    \/ \E th \in Threads : SyncGet(th)
    \/ \E th \in Threads, it \in SyncItems : SyncLock(th, "Set", it)
    \/ \E th \in Threads, it \in SyncItems : SyncLock(th, "Add", it)
    \/ \E th \in Threads, key \in SyncKeys : SyncLock(th, "Del", KeyArg(key))
    \/ \E th \in Threads : SyncLocked(th)
    \/ \E th \in Threads : SyncSet(th)
    \/ \E th \in Threads : SyncAdd(th)
    \/ \E th \in Threads : SyncDel(th)

\* NewSync(1, MaxSamples)
InitSync == Init /\ size = 1

SpecSync == InitSync /\ [][NextSync]_vars

\* ------------------------------------------- the admission filter followed
\* Get and Set of items without expiry, with the fingerprints that T.set has
\* passed to bouncer.allow since the last reset kept in offered.
CurDK == [Cur EXCEPT !.offered = offered]

GetDK(key) ==
    /\ cmEstimate(countSketch, Hash(key)) < MaxFreq
    /\ \E r \in {TGet(CurDK, key, now)} : \E S \in {Rename(r.S)} :
          /\ Commit(S)
          /\ offered' = S.offered
          /\ ret' = Result("Get", r.ok, r.value, FALSE)
          /\ lastVal' = Kept(lastVal, S)
    /\ UNCHANGED <<size, now, mu, pc, ptrs, panicked>>

SetDK(newItem) ==
    /\ data[newItem.Key] # 0 =>
           cmEstimate(countSketch, Hash(newItem.Key)) < MaxFreq
    /\ \E S \in {Rename(TSet(CurDK, newItem))} :
          /\ Commit(S)
          /\ offered' = S.offered
          /\ ret' = Result("Set", FALSE, 0, FALSE)
          /\ lastVal' = Kept([lastVal EXCEPT ![newItem.Key] = newItem.Value], S)
    /\ UNCHANGED <<size, now, mu, pc, ptrs, panicked>>

NextDK ==
    \/ \E key \in Keys : GetDK(key)
    \/ \E newItem \in {it \in NewItems : it.ExpireAt = 0} : SetDK(newItem)

SpecDK == Init /\ [][NextDK]_vars

\* ====================================================== uint64-keyed engine
\* The engine T of src/tinylfu.go and its window cache lruCache, translated
\* from that file.  Its Item has Key, Value, ExpireAt and listid (no callback,
\* no keyh: the key is its own fingerprint); its slruCache, cm4 and doorkeeper
\* are the ones above.  A type assertion e.Value.(*Item) on an element whose
\* Value holds a **Item panics: the call ends there, with what it had written.

\* A capacity whose window holds two items (1% of it is 2).
WideSize == 200
Sizes64 == (1..MaxSize) \cup {WideSize}

\* time.Unix(0, 0): not the zero time, and before every instant of now
UnixEpoch == -1

NewItems64 ==
    [Key : Keys, Value : Values, ExpireAt : {0},
     OnEvict : {FALSE}, listid : {0}, keyh : {0}]

\* ----------------------------------------- lruCache (src/tinylfu.go)
lru64Get(S, v) == [S EXCEPT !.lru.ll = MoveToFront(@, v)]

\* add: [S, oldItem, evicted, panic]
lru64Add(S, newItem) ==
    IF Len(S.lru.ll) < S.lru.cap
    THEN \* lru.ll.PushFront(&newItem): the element's Value is a **Item
         LET e == NewElem(S)
         IN [S |-> [S EXCEPT !.elems[e] = newItem,
                             !.ptrs = @ \cup {e},
                             !.lru.ll = PushFront(@, e),
                             !.data[newItem.Key] = e],
             oldItem |-> NoItem, evicted |-> FALSE, panic |-> FALSE]
    ELSE \* reuse the tail item
         LET e == Back(S.lru.ll)
             item == S.elems[e]
         IN IF e \in S.ptrs
            THEN \* item := e.Value.(*Item) panics
                 [S |-> S, oldItem |-> NoItem, evicted |-> FALSE, panic |-> TRUE]
            ELSE [S |-> [S EXCEPT !.data = [[@ EXCEPT ![item.Key] = 0]
                                                EXCEPT ![newItem.Key] = e],
                                  !.elems[e] = newItem,
                                  !.lru.ll = MoveToFront(@, e)],
                  oldItem |-> item, evicted |-> TRUE, panic |-> FALSE]

\* ------------------------------------------------ T (src/tinylfu.go)
New64(sz, smp) ==
    [samples     |-> smp,
     w           |-> 0,
     countSketch |-> newCM4(sz),
     bouncer     |-> newDoorkeeper,
     data        |-> [k \in Keys |-> 0],
     lru         |-> newLRU(lruSizeOf(sz)),
     slru        |-> newSLRU(slru20Of(sz), slruSizeOf(sz) - slru20Of(sz)),
     elems       |-> [e \in Elems |-> NoItem],
     ptrs        |-> {}]

\* Get at time t: [S, value, ok, panic]
T64Get(S, key, t) ==
    LET S1 == IF S.w + 1 = S.samples
              THEN [S EXCEPT !.countSketch = cmReset(@),
                             !.bouncer = dkReset(@),
                             !.w = 0]
              ELSE [S EXCEPT !.w = @ + 1]
        val == S1.data[key]
    IN IF val = 0
       THEN [S |-> [S1 EXCEPT !.countSketch = cmAdd(@, key)],
             value |-> 0, ok |-> FALSE, panic |-> FALSE]
       ELSE IF val \in S1.ptrs
       THEN \* item := val.Value.(*Item) panics
            [S |-> S1, value |-> 0, ok |-> FALSE, panic |-> TRUE]
       ELSE LET item == S1.elems[val]
                S2 == [S1 EXCEPT !.countSketch = cmAdd(@, item.Key)]
                S3 == IF item.listid = 0 THEN lru64Get(S2, val) ELSE slruGet(S2, val)
            IN IF item.ExpireAt = 0 \/ t < item.ExpireAt
               THEN [S |-> S3, value |-> item.Value, ok |-> TRUE, panic |-> FALSE]
               ELSE [S |-> S3, value |-> 0, ok |-> FALSE, panic |-> FALSE]

\* Set, once the window has evicted oldItem: the main cache takes it or not
T64Admit(S, oldItem) ==
    LET victim == slruVictim(S)
        b == dkAllow(S.bouncer, oldItem.Key)
        S1 == [S EXCEPT !.bouncer = b.bits]
        vcount == cmEstimate(S1.countSketch, victim.Key)
        ocount == cmEstimate(S1.countSketch, oldItem.Key)
    IN IF victim = NoItem THEN slruAdd(S, oldItem)
       ELSE IF ~b.ok THEN S1
       ELSE IF ocount < vcount THEN S1
       ELSE slruAdd(S1, oldItem)

\* Set from the window's answer a == lru.add(newItem) on: [S, panic]
T64SetAfter(a) ==
    IF a.panic THEN [S |-> a.S, panic |-> TRUE]
    ELSE IF ~a.evicted THEN [S |-> a.S, panic |-> FALSE]
    ELSE [S |-> T64Admit(a.S, a.oldItem), panic |-> FALSE]

T64Set(S, newItem) == T64SetAfter(lru64Add(S, newItem))

\* Del: [S, panic]
T64Del(S, key) ==
    LET val == S.data[key]
    IN IF val = 0 THEN [S |-> S, panic |-> FALSE]
       ELSE IF val \in S.ptrs
       THEN \* item := val.Value.(*Item) panics
            [S |-> S, panic |-> TRUE]
       ELSE [S |-> [S EXCEPT !.elems[val].Value = 0,
                             !.elems[val].ExpireAt = UnixEpoch],
             panic |-> FALSE]

\* ------------------------------------------------------------ the machine
Cur64 ==
    [samples |-> samples, w |-> w, countSketch |-> countSketch,
     bouncer |-> bouncer, data |-> data, lru |-> lru, slru |-> slru,
     elems |-> elems, ptrs |-> ptrs]

Commit64(S) ==
    /\ samples' = S.samples
    /\ w' = S.w
    /\ countSketch' = S.countSketch
    /\ bouncer' = S.bouncer
    /\ data' = S.data
    /\ lru' = S.lru
    /\ slru' = S.slru
    /\ elems' = S.elems
    /\ ptrs' = S.ptrs

Init64 ==
    /\ size \in Sizes64
    /\ \E smp \in {MaxSamples} :
           LET S == New64(size, smp)
           IN /\ samples = S.samples
              /\ w = S.w
              /\ countSketch = S.countSketch
              /\ bouncer = S.bouncer
              /\ data = S.data
              /\ lru = S.lru
              /\ slru = S.slru
              /\ elems = S.elems
              /\ ptrs = S.ptrs
    /\ panicked = FALSE
    /\ now = 1
    /\ evicts = [k \in Keys |-> 0]
    /\ offered = {}
    /\ lastVal = [k \in Keys |-> 0]
    /\ ret = Result("New", FALSE, 0, FALSE)
    /\ mu = [readers |-> 0, writer |-> FALSE, pending |-> 0]
    /\ pc = [th \in Threads |-> Idle]

\* A panic that is not recovered ends the program: no call follows it.
Get64(key) ==
    /\ ~panicked
    /\ cmEstimate(countSketch, key) < MaxFreq
    /\ \E r \in {T64Get(Cur64, key, now)} :
          /\ Commit64(r.S)
          /\ panicked' = r.panic
          /\ ret' = Result("Get", r.ok, r.value, FALSE)
    /\ UNCHANGED <<size, now, evicts, lastVal, mu, pc, offered>>

Set64(newItem) ==
    /\ ~panicked
    /\ \E r \in {T64Set(Cur64, newItem)} :
          /\ Commit64(r.S)
          /\ panicked' = r.panic
          /\ ret' = Result("Set", FALSE, 0, FALSE)
    /\ UNCHANGED <<size, now, evicts, lastVal, mu, pc, offered>>

Del64(key) ==
    /\ ~panicked
    /\ \E r \in {T64Del(Cur64, key)} :
          /\ Commit64(r.S)
          /\ panicked' = r.panic
          /\ ret' = Result("Del", FALSE, 0, FALSE)
    /\ UNCHANGED <<size, now, evicts, lastVal, mu, pc, offered>>

Next64 ==
    \/ \E key \in Keys : Get64(key)
    \/ \E newItem \in NewItems64 : Set64(newItem)
    \/ \E key \in Keys : Del64(key)

Spec64 == Init64 /\ [][Next64]_vars

\* ----------------------------- T of src/tinylfu.go over the window of 4.3
\* The same engine with, for its window, the cache that section 4.3 of the
\* specification describes (lruAdd above): every element holds a *Item, no
\* type assertion fails, and a Set goes on to the main cache.
lruAddSound(S, newItem) ==
    LET a == lruAdd(S, newItem)
    IN [S |-> a.S, oldItem |-> a.oldItem, evicted |-> a.evicted, panic |-> FALSE]

Set64W(newItem) ==
    /\ ~panicked
    /\ \E r \in {T64SetAfter(lruAddSound(Cur64, newItem))} :
          /\ Commit64(r.S)
          /\ panicked' = r.panic
          /\ ret' = Result("Set", FALSE, 0, FALSE)
    /\ UNCHANGED <<size, now, evicts, lastVal, mu, pc, offered>>

Init64W == Init64 /\ size <= MaxSize

Next64W ==
    \/ \E key \in Keys : Get64(key)
    \/ \E newItem \in NewItems64 : Set64W(newItem)

Spec64W == Init64W /\ [][Next64W]_vars

\* ================================================================ claims
Resident == {k \in Keys : data[k] # 0}
Linked == Live([lru |-> lru, slru |-> slru])
ItemOf(k) == elems[data[k]]
AtFront(e) ==
    \/ lru.ll # <<>> /\ Front(lru.ll) = e
    \/ slru.one # <<>> /\ Front(slru.one) = e
    \/ slru.two # <<>> /\ Front(slru.two) = e

\* C1: after any sequence of Set, Add, Get and Del the dictionary holds at
\* most as many live entries as the capacity New was called with.
C1_CapacityBound == Cardinality(Resident) <= size

\* C2: whenever Get(k) reports found, the value it returns is the one carried
\* by the most recent Set or successful Add for k.
C2_GetReturnsLastSet ==
    [][\A k \in Keys : (Get(k) /\ ret'.ok) => ret'.value = lastVal[k]]_vars

\* a Get found its key in the protected list while the cache holds three
\* items, not all of one value
C2_Witness ==
    /\ ret.op = "Get" /\ ret.ok
    /\ Cardinality(Resident) = 3
    /\ slru.two # <<>> /\ elems[Front(slru.two)].Value = ret.value
    /\ \E k \in Resident : ItemOf(k).Value # ret.value

\* C3: after Set(item) on a resident key the entry's value and expiry are those
\* of the new item, and the entry is at the most recently used end of its list.
C3_SetReplacesValueAndExpiry ==
    [][\A it \in NewItems :
          (data[it.Key] # 0 /\ Set(it)) =>
              /\ data'[it.Key] # 0
              /\ elems'[data'[it.Key]].Value = it.Value
              /\ elems'[data'[it.Key]].ExpireAt = it.ExpireAt
              /\ AtFront(data[it.Key])']_vars

\* C4: Get(k) never reports found for an item whose expiry lies in the past
\* at the time of the call; that Get reaps the item.
C4_GetNeverReturnsExpired ==
    [][\A k \in Keys :
          (/\ Get(k)
           /\ data[k] # 0
           /\ ItemOf(k).ExpireAt # 0
           /\ now > ItemOf(k).ExpireAt) => (~ret'.ok /\ data'[k] = 0)]_vars

\* a Get has just reaped an expired item: it reported not-found and the
\* item's callback fired
C4_Witness ==
    /\ ret.op = "Get" /\ ~ret.ok
    /\ \E k \in Keys : data[k] = 0 /\ evicts[k] = 1

\* C5: Add on a resident key returns ErrKeyAlreadyExists and changes nothing
\* of the cache, and invokes no callback.
C5_AddExistingChangesNothing ==
    [][\A it \in NewItems :
          (data[it.Key] # 0 /\ Add(it)) =>
              /\ ret'.err
              /\ UNCHANGED cacheVars
              /\ evicts' = Cur.evicts]_vars

\* an Add has just failed on a key that is resident
C5_Witness == ret.op = "Add" /\ ret.err /\ Resident # {}

\* C6: Del(k) on a resident key unlinks k's element, deletes k's dictionary
\* entry and invokes the item's callback exactly once, and a Get(k) that
\* follows reports not-found; Del on an absent key changes nothing.
C6_DelRemovesOnce ==
    [][\A k \in Keys :
          Del(k) =>
              IF data[k] # 0
              THEN /\ data'[k] = 0
                   /\ \A e \in Linked' : elems'[e].Key # k
                   /\ Cardinality(Linked') = Cardinality(Linked) - 1
                   /\ evicts'[k] = 1
                   /\ ~TGet(Cur, k, now)'.ok
              ELSE /\ UNCHANGED cacheVars
                   /\ evicts' = Cur.evicts]_vars

\* a Del has just removed a resident key
C6_Witness ==
    /\ ret.op = "Del"
    /\ \E k \in Keys : data[k] = 0 /\ evicts[k] = 1

\* C7: under SyncT no two calls are inside the engine at the same time.
C7_OneCallInside == Cardinality({th \in Threads : pc[th].at = "in"}) <= 1

\* C8: the eviction callback of an item is invoked at most once.
C8_CallbackAtMostOnce == \A k \in Keys : evicts[k] <= 1

\* a Set has just discarded a window evictee and invoked its callback
C8_Witness ==
    /\ ret.op = "Set"
    /\ \E k \in Keys : data[k] = 0 /\ evicts[k] = 1

\* C9: every item that leaves the dictionary has its callback invoked once by
\* the time the operation that removed it returns.
C9_NoSilentRemoval ==
    [][\A k \in Keys : (data[k] # 0 /\ data'[k] = 0) => evicts'[k] = 1]_vars

\* C10: for a key whose resident item has expired every operation answers as
\* if the key were absent: Get reports not-found, Add inserts and returns no
\* error.
C10_ExpiredIsAbsent ==
    [][\A it \in NewItems :
          (/\ data[it.Key] # 0
           /\ ItemOf(it.Key).ExpireAt # 0
           /\ now > ItemOf(it.Key).ExpireAt) =>
              /\ Get(it.Key) => ~ret'.ok
              /\ Add(it) => (~ret'.err /\ data'[it.Key] # 0
                             /\ elems'[data'[it.Key]].Value = it.Value)]_vars

\* C11: Set on a resident key never evicts: in every reachable state, for
\* every item whose key is resident, the cache T.Set leaves has the same
\* resident keys, no callback was invoked, no slot was linked or unlinked, and
\* a cache that held one key holds one dictionary entry in one slot.
C11_SetExistingNeverEvicts ==
    \A it \in NewItems :
        (data[it.Key] # 0 /\ cmEstimate(countSketch, Hash(it.Key)) < MaxFreq) =>
            LET S == TSet(Cur, it)
            IN /\ {k \in Keys : S.data[k] # 0} = Resident
               /\ S.evicts = Cur.evicts
               /\ Cardinality(Live(S)) = Cardinality(Linked)
               /\ Cardinality(Resident) = 1 =>
                     /\ Cardinality(Live(S)) = 1
                     /\ S.data[it.Key] \in Live(S)

\* a Set has acted on a resident key (two keys have an estimate of 1 right
\* after a reset, and a Get leaves one), and the cache holds that single key
C11_Witness ==
    /\ ret.op = "Set" /\ w = 0
    /\ Cardinality(Resident) = 1 /\ Cardinality(Linked) = 1
    /\ \A k \in Keys : evicts[k] = 0
    /\ \E k \in Resident : cmEstimate(countSketch, Hash(k)) = 1
    /\ Cardinality({k \in Keys : cmEstimate(countSketch, Hash(k)) = 1}) >= 2

\* C12: in the uint64-keyed engine every Get and Set on a cache built with a
\* capacity of at least 1 completes normally: no call panics.
C12_NoPanic == ~panicked

\* C13: in both engines a Set that reaches the frequency comparison (the
\* window is full, the main cache reports a victim, the admission filter
\* answers yes for the window's evictee) leaves the main cache as it was
\* unless the evictee's estimate is strictly greater than the victim's: on
\* a tie the evictee is rejected.
WindowEvictee == elems[Back(lru.ll)]
ReachesComparison(fp) ==
    /\ Len(lru.ll) = lru.cap
    /\ slruVictim(Cur) # NoItem
    /\ dkIdx(fp) \subseteq bouncer
MainUntouched ==
    /\ slru' = slru
    /\ \A e \in Elems :
          (InList(slru.one, e) \/ InList(slru.two, e)) => elems'[e] = elems[e]
GetStep == ret'.op = "Get" /\ now' = now
Estimate(k) == cmEstimate(countSketch, Hash(k))
C14_CounterAndReset ==
    /\ [](w >= 0 /\ w < samples)
    /\ [][/\ ~GetStep => w' = w
          /\ \A k \in Keys :
                Get(k) =>
                    IF w + 1 = samples
                    THEN /\ w' = 0
                         /\ bouncer' = {}
                         /\ \A j \in Keys :
                               Estimate(j)' = (Estimate(j) \div 2)
                                                  + (IF j = k THEN 1 ELSE 0)
                    ELSE /\ w' = w + 1
                         /\ bouncer' = bouncer
                         /\ \A j \in Keys :
                               Estimate(j)' = Estimate(j)
                                                  + (IF j = k THEN 1 ELSE 0)]_vars

\* a Get has just brought the counter of a cache that holds two keys to
\* samples: the counter is back at 0, the filter is empty and the key of
\* that Get is the only one counted
C14_Witness ==
    /\ ret.op = "Get" /\ w = 0
    /\ bouncer = {}
    /\ Cardinality(Resident) >= 2
    /\ Cardinality({k \in Keys : Estimate(k) > 0}) = 1

\* C15: in both engines the dictionary and the linked slots match: a key
\* the dictionary maps is mapped to a linked slot that holds an item of that
\* key, and every linked slot holds an item whose key the dictionary maps to
\* that very slot (so no key is held by two slots).
C15_DictionaryMatchesSlots ==
    /\ \A k \in Keys :
          data[k] # 0 => (data[k] \in Linked /\ elems[data[k]].Key = k)
    /\ \A e \in Linked :
          elems[e].Key \in Keys /\ data[elems[e].Key] = e

\* C16: every Get, every Set (of a resident key or of a new one) and every
\* successful Add adds exactly one to the estimate of its key (a Get that
\* resets the estimator halves the estimate first).
C16_EveryAccessCounts ==
    [][/\ \A k \in Keys :
             Get(k) =>
                 Estimate(k)' = (IF w + 1 = samples THEN Estimate(k) \div 2
                                                    ELSE Estimate(k)) + 1
       /\ \A it \in NewItems :
             Set(it) => Estimate(it.Key)' = Estimate(it.Key) + 1
       /\ \A it \in NewItems :
             (Add(it) /\ ~ret'.err) =>
                 Estimate(it.Key)' = Estimate(it.Key) + 1]_vars

\* C17 as stated: when the main cache reports a victim, a window evictee
\* whose fingerprint the admission filter was not asked about since the last
\* reset is discarded (its callback fires, the main cache stays as it was).
ReachesFilter(it) ==
    /\ data[it.Key] = 0
    /\ Len(lru.ll) = lru.cap
    /\ slruVictim(Cur) # NoItem
Discarded ==
    /\ data'[WindowEvictee.Key] = 0
    /\ evicts'[WindowEvictee.Key] = 1
    /\ MainUntouched
AnswersYes(fp) == dkIdx(fp) \subseteq bouncer
C18_CapacitiesSplit ==
    /\ lru.cap >= 1
    /\ slru.onecap >= 1
    /\ slru.twocap >= 1
    /\ lru.cap + slru.onecap + slru.twocap <= size

\* C19: lruCache.add of a new key.  Under capacity it links a new slot at the
\* front, holding the new item, maps the key to it and evicts nothing.  At
\* capacity it returns, as evicted, the item the tail slot held before the
\* call, removes that item's key from the dictionary, and the tail slot,
\* overwritten with the new item, is at the front with the dictionary
\* mapping the new key to it.
C19_WindowAdd ==
    \A it \in NewItems64 :
        data[it.Key] = 0 =>
            LET a == lru64Add(Cur64, it)
                front == Front(a.S.lru.ll)
            IN /\ ~a.panic
               /\ a.S.elems[front] = it
               /\ a.S.data[it.Key] = front
               /\ IF Len(lru.ll) < lru.cap
                  THEN /\ ~a.evicted
                       /\ front \notin Linked
                       /\ a.S.lru.ll = <<front>> \o lru.ll
                       /\ \A k \in Keys \ {it.Key} : a.S.data[k] = data[k]
                  ELSE /\ a.evicted
                       /\ front = Back(lru.ll)
                       /\ a.oldItem = elems[Back(lru.ll)]
                       /\ a.S.data[a.oldItem.Key] = 0
                       /\ Len(a.S.lru.ll) = Len(lru.ll)

\* C20: in every reachable state each slot is a member of exactly one of the
\* three lists and its item's segment tag names that list: 0 for the window
\* list, 1 for probation, 2 for protected.  The slot the dictionary holds for
\* a key is therefore in the list that Get, Set-as-update and Del choose from
\* its tag.
Count(l, e) == Cardinality({i \in 1..Len(l) : l[i] = e})
OwnerTag(e) == IF InList(lru.ll, e) THEN 0
               ELSE IF InList(slru.one, e) THEN 1 ELSE 2
C20_TagNamesOwningList ==
    /\ \A e \in Linked :
          /\ Count(lru.ll, e) + Count(slru.one, e) + Count(slru.two, e) = 1
          /\ elems[e].listid = OwnerTag(e)
          /\ elems[e].listid = 0 <=> InList(lru.ll, e)
    /\ \A k \in Keys : data[k] # 0 =>
          /\ data[k] \in Linked
          /\ elems[data[k]].listid = 0 => InList(lru.ll, data[k])
          /\ elems[data[k]].listid # 0 =>
                InList(slru.one, data[k]) \/ InList(slru.two, data[k])

\* a Set has just overwritten the window's slot in place and its evictee was
\* admitted into probation, with the protected list occupied as well
C20_Witness ==
    /\ ret.op = "Set"
    /\ lru.ll # <<>> /\ slru.one # <<>> /\ slru.two # <<>>
    /\ Len(lru.ll) = lru.cap
    /\ elems[Front(lru.ll)].listid = 0
    /\ elems[Front(slru.one)].listid = 1
    /\ elems[Front(slru.two)].listid = 2
    /\ evicts = [k \in Keys |-> 0]
    /\ Cardinality(Resident) = Len(lru.ll) + Len(slru.one) + Len(slru.two)
    /\ Cardinality(Resident) >= 3

====
